---- MODULE Spec2Model ----
(***************************************************************************)
(* A model of tianzige: core.py (calculate_square_size, hex_to_rgb,        *)
(* validate_hex_color, create_tianzige) and __main__.py (main).            *)
(*                                                                         *)
(* Lengths are Python floats.  The two floor operations of the program    *)
(* (int(...) in calculate_square_size and // in create_tianzige) are      *)
(* decided by the last bit of those floats, so floats are modelled as     *)
(* IEEE-754 binary64 values with round-to-nearest-even arithmetic, on     *)
(* significands kept as little-endian sequences of 14-bit limbs.          *)
(***************************************************************************)
EXTENDS Integers, Sequences, FiniteSets, TLC

----------------------------------------------------------------------------
(* Natural numbers of any size: little-endian limb sequences, no leading   *)
(* zero limb, zero is << >>.                                               *)

LimbBits == 14

RECURSIVE Pow2(_)
Pow2(n) == IF n = 0 THEN 1 ELSE 2 * Pow2(n - 1)

Base == Pow2(LimbBits)

Limb(a, i) == IF i <= Len(a) THEN a[i] ELSE 0

RECURSIVE Trim(_)
Trim(a) ==
  IF a = << >> THEN << >>
  ELSE IF a[Len(a)] = 0 THEN Trim(SubSeq(a, 1, Len(a) - 1))
  ELSE a

RECURSIVE BigFromNat(_)
BigFromNat(n) == IF n = 0 THEN << >> ELSE <<n % Base>> \o BigFromNat(n \div Base)

RECURSIVE BigToNatFrom(_, _)
BigToNatFrom(a, i) == IF i > Len(a) THEN 0 ELSE a[i] + Base * BigToNatFrom(a, i + 1)

\* the value of a limb sequence that fits a machine integer
BigToNat(a) == BigToNatFrom(a, 1)

RECURSIVE AddFrom(_, _, _, _)
AddFrom(a, b, i, c) ==
  IF i > Len(a) /\ i > Len(b) THEN (IF c = 0 THEN << >> ELSE <<c>>)
  ELSE LET t == Limb(a, i) + Limb(b, i) + c
       IN  <<t % Base>> \o AddFrom(a, b, i + 1, t \div Base)

BigAdd(a, b) == AddFrom(a, b, 1, 0)

RECURSIVE SubFrom(_, _, _, _)
SubFrom(a, b, i, br) ==
  IF i > Len(a) THEN << >>
  ELSE LET t == a[i] - Limb(b, i) - br
       IN  IF t < 0 THEN <<t + Base>> \o SubFrom(a, b, i + 1, 1)
           ELSE <<t>> \o SubFrom(a, b, i + 1, 0)

\* a - b, for a >= b
BigSub(a, b) == Trim(SubFrom(a, b, 1, 0))

RECURSIVE CmpFrom(_, _, _)
CmpFrom(a, b, i) ==
  IF i = 0 THEN 0
  ELSE IF a[i] < b[i] THEN -1
  ELSE IF a[i] > b[i] THEN 1
  ELSE CmpFrom(a, b, i - 1)

\* -1, 0, 1 as a < b, a = b, a > b
BigCmp(a, b) ==
  IF Len(a) < Len(b) THEN -1
  ELSE IF Len(a) > Len(b) THEN 1
  ELSE CmpFrom(a, b, Len(a))

RECURSIVE MulSmallFrom(_, _, _, _)
MulSmallFrom(a, k, i, c) ==
  IF i > Len(a) THEN (IF c = 0 THEN << >> ELSE <<c>>)
  ELSE LET t == a[i] * k + c
       IN  <<t % Base>> \o MulSmallFrom(a, k, i + 1, t \div Base)

\* a * k for a limb k (0 <= k < Base)
BigMulSmall(a, k) == IF k = 0 THEN << >> ELSE MulSmallFrom(a, k, 1, 0)

ShiftLimbs(a, n) == IF a = << >> THEN << >> ELSE [i \in 1..n |-> 0] \o a

RECURSIVE MulFrom(_, _, _)
MulFrom(a, b, j) ==
  IF j > Len(b) THEN << >>
  ELSE BigAdd(ShiftLimbs(BigMulSmall(a, b[j]), j - 1), MulFrom(a, b, j + 1))

BigMul(a, b) == MulFrom(a, b, 1)

\* a * 2^n
BigShl(a, n) == ShiftLimbs(BigMulSmall(a, Pow2(n % LimbBits)), n \div LimbBits)

RECURSIVE DivSmallFrom(_, _, _, _)
DivSmallFrom(a, k, i, r) ==
  IF i = 0 THEN << >>
  ELSE LET t == r * Base + a[i]
       IN  DivSmallFrom(a, k, i - 1, t % k) \o <<t \div k>>

\* floor(a / 2^n)
BigShr(a, n) ==
  LET d == n \div LimbBits
      hi == IF d >= Len(a) THEN << >> ELSE SubSeq(a, d + 1, Len(a))
  IN  Trim(DivSmallFrom(hi, Pow2(n % LimbBits), Len(hi), 0))

\* a mod 2^n
BigLow(a, n) == BigSub(a, BigShl(BigShr(a, n), n))

RECURSIVE BitLenSmall(_)
BitLenSmall(k) == IF k = 0 THEN 0 ELSE 1 + BitLenSmall(k \div 2)

BitLen(a) ==
  IF a = << >> THEN 0 ELSE LimbBits * (Len(a) - 1) + BitLenSmall(a[Len(a)])

Bit(a, i) == (Limb(a, i \div LimbBits + 1) \div Pow2(i % LimbBits)) % 2

IsOdd(a) == Bit(a, 0) = 1

RECURSIVE DivStep(_, _, _, _, _)
DivStep(a, b, i, q, r) ==
  \* (the two length tests only make TLC evaluate q and r at every step)
  IF i < 0 \/ Len(q) < 0 \/ Len(r) < 0 THEN [q |-> q, r |-> r]
  ELSE LET r2 == MulSmallFrom(r, 2, 1, Bit(a, i))       \* 2 * r + bit i of a
           ge == BigCmp(r2, b) >= 0
       IN  DivStep(a, b, i - 1,
                   MulSmallFrom(q, 2, 1, IF ge THEN 1 ELSE 0),
                   IF ge THEN BigSub(r2, b) ELSE r2)

\* quotient and remainder of a by b (b > 0), by binary long division
BigDivMod(a, b) == DivStep(a, b, BitLen(a) - 1, << >>, << >>)

\* floor(a * 2^n / b) and whether a remainder is left, for 0 < a < 2 * b:
\* the long division of a * 2^n by b, entered after the bits of a
BigDivShifted(a, b, n) ==
  LET ge == BigCmp(a, b) >= 0
  IN  DivStep(<< >>, b, n - 1,
              IF ge THEN <<1>> ELSE << >>,
              IF ge THEN BigSub(a, b) ELSE a)

----------------------------------------------------------------------------
(* Python floats: IEEE-754 binary64, round to nearest, ties to even.  A    *)
(* float is [s, m, e] with value s * m * 2^e, s in {1, -1} and m a         *)
(* MantBits-bit significand; zero is [1, << >>, 0] (the sign of a zero is  *)
(* not kept: nothing in the program reads it).  The program's lengths lie  *)
(* far from the subnormal and the overflow range.                          *)

MantBits == 53

FZero == [s |-> 1, m |-> << >>, e |-> 0]

IsZero(a) == a.m = << >>

\* the float nearest to s * (M + f) * 2^e, where 0 <= f < 1 and f > 0 iff sticky
\* the float s * q * 2^e for a significand q of MantBits bits, or of one bit
\* more when rounding up carried out of the top bit
FPack(s, q, e) ==
  IF BitLen(q) > MantBits THEN [s |-> s, m |-> BigShr(q, 1), e |-> e + 1]
  ELSE [s |-> s, m |-> q, e |-> e]

\* q rounded up or not: c compares the bits dropped with one half
FRoundUp(s, q, e, c, sticky) ==
  FPack(s, IF c > 0 \/ (c = 0 /\ (sticky \/ IsOdd(q))) THEN BigAdd(q, <<1>>) ELSE q, e)

FRound(s, M, e, sticky) ==
  LET n  == BitLen(M)
      sh == n - MantBits
  IN  IF n = 0 THEN FZero
      ELSE IF n <= MantBits
        THEN [s |-> s, m |-> BigShl(M, MantBits - n), e |-> e - (MantBits - n)]
      ELSE FRoundUp(s, BigShr(M, sh), e + sh,
                    BigCmp(BigLow(M, sh), BigShl(<<1>>, sh - 1)), sticky)

Abs(n) == IF n < 0 THEN -n ELSE n

Sgn(n) == IF n < 0 THEN -1 ELSE 1

\* float(n) for a Python int n
FromInt(n) == FRound(Sgn(n), BigFromNat(Abs(n)), 0, FALSE)

FNeg(a) == IF IsZero(a) THEN a ELSE [a EXCEPT !.s = -a.s]

\* n * a for a Python int n of one limb: n converts to a float exactly
FMulInt(n, a) ==
  IF n = 0 \/ IsZero(a) THEN FZero
  ELSE FRound(Sgn(n) * a.s, BigMulSmall(a.m, Abs(n)), a.e, FALSE)

\* a * b
FMul(a, b) ==
  IF IsZero(a) \/ IsZero(b) THEN FZero
  ELSE FRound(a.s * b.s, BigMul(a.m, b.m), a.e + b.e, FALSE)

\* a / b, b nonzero
FRoundQuot(s, dm, e) == FRound(s, dm.q, e, dm.r # << >>)

FDiv(a, b) ==
  IF IsZero(a) THEN FZero
  ELSE FRoundQuot(a.s * b.s, BigDivShifted(a.m, b.m, MantBits + 3),
                  a.e - b.e - (MantBits + 3))

\* a + b
\* sa * A * 2^lo + sb * B * 2^lo, rounded once (equal magnitudes of opposite
\* signs leave the empty significand, which rounds to zero)
FAddAligned(sa, A, sb, B, lo) ==
  FRound(IF sa = sb \/ BigCmp(A, B) >= 0 THEN sa ELSE sb,
         IF sa = sb THEN BigAdd(A, B)
         ELSE IF BigCmp(A, B) >= 0 THEN BigSub(A, B)
         ELSE BigSub(B, A),
         lo, FALSE)

FAdd(a, b) ==
  IF IsZero(a) THEN b
  ELSE IF IsZero(b) THEN a
  ELSE LET lo == IF a.e < b.e THEN a.e ELSE b.e
       IN  FAddAligned(a.s, BigShl(a.m, a.e - lo), b.s, BigShl(b.m, b.e - lo), lo)

\* a - b
FSub(a, b) == FAdd(a, FNeg(b))

\* -1, 0, 1 as a < b, a = b, a > b (the sign of the rounded difference is exact)
FSign(d) == IF IsZero(d) THEN 0 ELSE d.s

FCmp(a, b) == FSign(FSub(a, b))

FLess(a, b) == FCmp(a, b) < 0

FLeq(a, b) == FCmp(a, b) <= 0

\* Python's min(a, b): b only when b < a
FMin(a, b) == IF FLess(b, a) THEN b ELSE a

\* int(a): truncation toward zero
FTrunc(a) ==
  IF IsZero(a) THEN 0
  ELSE IF a.e >= 0 THEN a.s * BigToNat(BigShl(a.m, a.e))
  ELSE a.s * BigToNat(BigShr(a.m, -a.e))

\* int(a // b), b nonzero.  CPython's float floor division takes the exact
\* fmod remainder and snaps the quotient to the nearest integer, which makes
\* a // b the floor of the exact quotient of the two floats.
FloorQuot(positive, dm) ==
  IF positive THEN BigToNat(dm.q)
  ELSE IF dm.r = << >> THEN -BigToNat(dm.q)
  ELSE -(BigToNat(dm.q) + 1)

FFloorDiv(a, b) ==
  IF IsZero(a) THEN 0
  ELSE LET lo == IF a.e < b.e THEN a.e ELSE b.e
       IN  FloorQuot(a.s = b.s,
                     BigDivMod(BigShl(a.m, a.e - lo), BigShl(b.m, b.e - lo)))

\* a / 2
FHalf(a) == IF IsZero(a) THEN a ELSE [a EXCEPT !.e = a.e - 1]

----------------------------------------------------------------------------
(* reportlab.lib.units and reportlab.lib.pagesizes, as imported by core.py *)

inch == FromInt(72)

cm == FDiv(inch, FDiv(FromInt(254), FromInt(100)))

mm == FMul(cm, FDiv(FromInt(1), FromInt(10)))

\* a page of w mm by h mm
MetricPage(w, h, unit) == <<FMulInt(w, unit), FMulInt(h, unit)>>

\* a page of w/2 inch by h inch
InchPage(w, h, unit) == <<FMul(FDiv(FromInt(w), FromInt(2)), unit), FMulInt(h, unit)>>

A4 == MetricPage(210, 297, mm)

A5 == MetricPage(148, 210, mm)

A6 == MetricPage(105, 148, mm)

A3 == MetricPage(297, 420, mm)

B4 == MetricPage(250, 353, mm)

B5 == MetricPage(176, 250, mm)

LETTER == InchPage(17, 11, inch)

LEGAL == InchPage(17, 14, inch)

PAGE_SIZES ==
  [a4 |-> A4, a5 |-> A5, a6 |-> A6, a3 |-> A3,
   b4 |-> B4, b5 |-> B5, letter |-> LETTER, legal |-> LEGAL]

PageSizeType == {"a4", "a5", "a6", "a3", "b4", "b5", "letter", "legal"}

----------------------------------------------------------------------------
(* core.py.  A string is a sequence of one-character strings; an optional  *)
(* number (None or a value) is a set of at most one number.                *)

UpperHex == <<"0", "1", "2", "3", "4", "5", "6", "7", "8", "9",
              "A", "B", "C", "D", "E", "F">>

LowerHex == <<"0", "1", "2", "3", "4", "5", "6", "7", "8", "9",
              "a", "b", "c", "d", "e", "f">>

\* the character class [0-9A-Fa-f]
HexDigit == {UpperHex[i] : i \in 1..16} \cup {LowerHex[i] : i \in 1..16}

\* '$' of a Python regular expression at position q of s (the next character
\* to read): the end of the string, or just before a newline that ends it
MatchEnd(s, q) == q = Len(s) + 1 \/ (q = Len(s) /\ s[q] = "\n")

\* bool(re.match(r'^#?[0-9A-Fa-f]{6}$', color)).  '#?' is greedy, and giving
\* the '#' back cannot help, '#' being no hex digit.
validate_hex_color(color) ==
  LET p == IF Len(color) >= 1 /\ color[1] = "#" THEN 2 ELSE 1
  IN  /\ p + 5 <= Len(color)
      /\ \A i \in p..(p + 5) : color[i] \in HexDigit
      /\ MatchEnd(color, p + 6)

RECURSIVE lstrip(_, _)
lstrip(s, c) == IF s # << >> /\ s[1] = c THEN lstrip(Tail(s), c) ELSE s

\* int(c, 16) of one hex digit
HexVal(c) == CHOOSE v \in 0..15 : c = UpperHex[v + 1] \/ c = LowerHex[v + 1]

\* hex_to_rgb of a validated colour: each component is x/255, kept as the
\* byte x (no operation of the program reads the quotient)
hex_to_rgb(hex_color) ==
  LET h == lstrip(hex_color, "#")
  IN  [k \in 1..3 |-> 16 * HexVal(h[2 * k - 1]) + HexVal(h[2 * k])]

Return(v) == [raise |-> "none", value |-> v]

Raise(e) == [raise |-> e, value |-> FZero]

\* calculate_square_size: the size in mm, or the exception of the division
calculate_square_size(page_width, page_height, margin_left, margin_right, margin_top, margin_bottom, min_squares) ==
  LET available_width  == FSub(FSub(page_width, margin_left), margin_right)
      available_height == FSub(FSub(page_height, margin_top), margin_bottom)
  IN  IF min_squares = 0 THEN Raise("ZeroDivisionError")
      ELSE LET max_square_size ==
                 FMin(FDiv(available_width, FromInt(min_squares)),
                      FDiv(available_height, FromInt(min_squares)))
               \* int((max_square_size / mm) * 2)
               halves == FTrunc(FMulInt(2, FDiv(max_square_size, mm)))
           IN  \* float(halves / 2): the quotient of an int by 2 is exact
               Return(FHalf(FromInt(halves)))

\* min_squares: int = 10
DefaultMinSquares == 10

\* str.lower() on the page names the model draws
lower(page_size) == IF page_size = "A4" THEN "a4" ELSE page_size

\* the one element of an optional number that is not None
The(opt) == CHOOSE v \in opt : TRUE

\* An entry of the log of one create_tianzige call, in execution order: the
\* steps that completed ("validate", "size", "dimensions") and the calls on
\* the canvas ("Canvas", "setStrokeColorRGB", "line", "setDash", "save").
Step(name) == [op |-> name]

CanvasLine(x1, y1, x2, y2, dashed) ==
  [op |-> "line", x1 |-> x1, y1 |-> y1, x2 |-> x2, y2 |-> y2, dashed |-> dashed]

\* for i in range(n): x = left + i * square_size_pt [+ square_size_pt/2];
\*                    c.line(x, bottom, x, bottom + grid_height)
VerticalLines(n, left, bottom, square_size_pt, grid_height, inner) ==
  IF n <= 0 THEN << >>
  ELSE [k \in 1..n |->
          LET x0 == FAdd(left, FMulInt(k - 1, square_size_pt))
              x  == IF inner THEN FAdd(x0, FHalf(square_size_pt)) ELSE x0
          IN  CanvasLine(x, bottom, x, FAdd(bottom, grid_height), inner)]

\* for i in range(n): y = bottom + i * square_size_pt [+ square_size_pt/2];
\*                    c.line(left, y, left + grid_width, y)
HorizontalLines(n, left, bottom, square_size_pt, grid_width, inner) ==
  IF n <= 0 THEN << >>
  ELSE [k \in 1..n |->
          LET y0 == FAdd(bottom, FMulInt(k - 1, square_size_pt))
              y  == IF inner THEN FAdd(y0, FHalf(square_size_pt)) ELSE y0
          IN  CanvasLine(left, y, FAdd(left, grid_width), y, inner)]

\* what one call leaves: how it ended ("ok" or the exception raised), its
\* log, and the square size (mm) and the grid it got as far as computing
Outcome(result, log, square_size, grid) ==
  [result |-> result, log |-> log, square_size |-> square_size, grid |-> grid]

\* a faulty variant of Raised: the canvas, once created, is saved on the way
\* out (a "finally: c.save()" around the body)
RaisedAfterSave(exc, log, square_size) ==
  Outcome(exc, IF log = << >> THEN log ELSE log \o <<Step("save")>>, square_size, {})

\* an exception leaves create_tianzige where it is raised: the function has
\* no handler and no finally, so nothing more reaches the canvas
Raised(exc, log, square_size) == Outcome(exc, log, square_size, {})

\* a faulty variant of GridLines: the outer loops run over range(cols) and
\* range(rows), which leaves the grid open at the right and at the top
GridLinesOpen(cols, rows, left, bottom, square_size_pt, grid_width, grid_height, show_inner_grid) ==
  VerticalLines(cols, left, bottom, square_size_pt, grid_height, FALSE)
  \o HorizontalLines(rows, left, bottom, square_size_pt, grid_width, FALSE)
  \o (IF show_inner_grid
        THEN <<[op |-> "setDash", array |-> <<1, 2>>]>>
             \o VerticalLines(cols, left, bottom, square_size_pt, grid_height, TRUE)
             \o HorizontalLines(rows, left, bottom, square_size_pt, grid_width, TRUE)
        ELSE << >>)

\* lines 156-177: the outer lines, then the dashed inner lines
GridLines(cols, rows, left, bottom, square_size_pt, grid_width, grid_height, show_inner_grid) ==
  VerticalLines(cols + 1, left, bottom, square_size_pt, grid_height, FALSE)
  \o HorizontalLines(rows + 1, left, bottom, square_size_pt, grid_width, FALSE)
  \o (IF show_inner_grid
        THEN <<[op |-> "setDash", array |-> <<1, 2>>]>>
             \o VerticalLines(cols, left, bottom, square_size_pt, grid_height, TRUE)
             \o HorizontalLines(rows, left, bottom, square_size_pt, grid_width, TRUE)
        ELSE << >>)

\* lines 152-179: the grid of cols by rows squares is drawn and saved;
\* c.save() raises IOError on the output files of unwritable
Draw(a, unwritable, log, margins, square_size, square_size_pt, cols, rows) ==
  Outcome(IF a.output_file \in unwritable THEN "IOError" ELSE "ok",
          log \o <<Step("dimensions")>>
              \o GridLines(cols, rows, margins.left, margins.bottom, square_size_pt,
                           FMulInt(cols, square_size_pt),
                           FMulInt(rows, square_size_pt), a.show_inner_grid)
              \o <<Step("save")>>,
          {square_size}, {<<cols, rows>>})

\* lines 144-149: width // square_size_pt is a float floor division, which
\* raises ZeroDivisionError on a zero divisor
Dimension(a, unwritable, log, page, margins, square_size, square_size_pt) ==
  IF IsZero(square_size_pt) THEN Raised("ZeroDivisionError", log, {square_size})
  ELSE Draw(a, unwritable, log, margins, square_size, square_size_pt,
            FFloorDiv(FSub(FSub(page[1], margins.left), margins.right),
                      square_size_pt),
            FFloorDiv(FSub(FSub(page[2], margins.top), margins.bottom),
                      square_size_pt))

\* line 141, after the size of lines 133-139 is known
Size(a, unwritable, log, page, margins, sized) ==
  IF sized.raise # "none" THEN Raised(sized.raise, log, {})
  ELSE Dimension(a, unwritable, log \o <<Step("size")>>, page, margins,
                 sized.value, FMul(sized.value, mm))

\* lines 126-139: the canvas, the stroke colour, the square size
Render(a, unwritable, key, page, margins) ==
  Size(a, unwritable,
       << Step("validate"),
          [op |-> "Canvas", filename |-> a.output_file, pagesize |-> key],
          [op |-> "setStrokeColorRGB", rgb |-> hex_to_rgb(a.line_color)] >>,
       page, margins,
       IF a.square_size = {}
         THEN calculate_square_size(page[1], page[2], margins.left, margins.right,
                                    margins.top, margins.bottom,
                                    DefaultMinSquares)
         ELSE Return(FromInt(The(a.square_size))))

\* lines 116-119: the margins in points
Margins(a, unit) ==
  [top    |-> FMulInt(a.margin_top, unit),
   bottom |-> FMulInt(a.margin_bottom, unit),
   left   |-> FMulInt(a.margin_left, unit),
   right  |-> FMulInt(a.margin_right, unit)]

\* create_tianzige from its line 114 on (the colour is valid): the margins,
\* the page (a KeyError on a name PAGE_SIZES lacks), then the rest
create_tianzige_body(a, unwritable) ==
  IF lower(a.page_size) \notin PageSizeType
    THEN Raised("KeyError", <<Step("validate")>>, {})
  ELSE Render(a, unwritable, lower(a.page_size), PAGE_SIZES[lower(a.page_size)],
              Margins(a, mm))

\* a faulty variant of create_tianzige: the canvas is created before the
\* colour is validated
create_tianzige_canvas_first(a, unwritable) ==
  IF a.extra # {} THEN Raised("TypeError", << >>, {})
  ELSE IF ~validate_hex_color(a.line_color)
    THEN Raised("ValueError",
                <<[op |-> "Canvas", filename |-> a.output_file,
                   pagesize |-> lower(a.page_size)]>>, {})
  ELSE create_tianzige_body(a, unwritable)

\* create_tianzige called with the arguments a.  a.extra names the arguments
\* passed beyond the nine parameters of the signature (lines 85-95), which
\* Python refuses with a TypeError before the body runs.
create_tianzige(a, unwritable) ==
  IF a.extra # {} THEN Raised("TypeError", << >>, {})
  ELSE IF ~validate_hex_color(a.line_color) THEN Raised("ValueError", << >>, {})
  ELSE create_tianzige_body(a, unwritable)

----------------------------------------------------------------------------
(* The state.  A file path is <<directory, name>>, the name a sequence of  *)
(* its parts; an optional value is a set of at most one element.           *)

VARIABLES
  unwritable,         \* the environment: the output files c.save() fails on
  call,               \* the arguments of the last create_tianzige call
  ret,                \* how that call ended
  files,              \* the PDF files saved so far
  pc,                 \* main(): "idle", "parsed", "loop", "returned", "exited"
  args,               \* main(): the argparse Namespace
  templates_created,  \* main(): the counter of the template loop
  skipped,            \* main(): the skipped combinations
  attempted,          \* the template combinations tried so far, with results
  exit_code,          \* the code of sys.exit, once called
  color,              \* the string handed to validate_hex_color
  valid,              \* what validate_hex_color returned for it
  geom,               \* the page and margins handed to calculate_square_size
  resolved            \* its results for that page, one per min_squares tried

vars == <<unwritable, call, ret, files, pc, args, templates_created, skipped,
          attempted, exit_code, color, valid, geom, resolved>>

mainVars == <<pc, args, templates_created, skipped, attempted, exit_code>>

colorVars == <<color, valid>>

sizeVars == <<geom, resolved>>

Gray == <<"#", "8", "0", "8", "0", "8", "0">>

\* the strings the tests hand over as colours, and a few more
Colors ==
  { Gray,
    <<"0", "0", "F", "F", "0", "0">>,
    <<"#", "a", "b", "c", "D", "E", "F">>,
    <<"i", "n", "v", "a", "l", "i", "d">>,
    <<"#", "1", "2", "3", "4", "5">>,
    <<"#", "1", "2", "3", "4", "5", "6", "7">>,
    <<"#", "G", "H", "I", "J", "K", "L">>,
    << >> }

Invalid == <<"i", "n", "v", "a", "l", "i", "d">>

TestPdf == <<"", <<"test.pdf">>>>

BadPdf == <<"/invalid/path", <<"test.pdf">>>>

\* os.path.join(output_dir, f"tianzige_{paper_size}_{square_size}mm.pdf")
TemplateFile(output_dir, paper_size, square_size) ==
  <<output_dir, <<"tianzige_", paper_size, "_", square_size, "mm.pdf">>>>

\* the directories os.makedirs cannot create
MissingDirs == {"/invalid/path"}

\* the states of the file system the model starts in
FsStates ==
  { {BadPdf},
    {BadPdf, TemplateFile("templates", "a5", 15)} }

\* create_tianzige's defaults (lines 87-94), called as the tests call it
Defaults ==
  [output_file |-> TestPdf, line_color |-> Gray, square_size |-> {},
   margin_top |-> 15, margin_bottom |-> 15, margin_left |-> 10,
   margin_right |-> 20, show_inner_grid |-> TRUE, page_size |-> "a4",
   extra |-> {}, min_horizontal |-> {}, min_vertical |-> {}]

\* margins as <<top, bottom, left, right>> in mm
MarginSets ==
  { <<15, 15, 10, 20>>,      \* the defaults of create_tianzige
    <<15, 15, 20, 10>>,      \* the defaults of the command line
    <<0, 0, 0, 0>>,
    <<10, 10, 10, 10>>,
    <<-1, 15, 10, 20>>,      \* a negative margin
    <<15, 15, 150, 150>>,    \* wider than every page
    <<150, 150, 10, 20>> }   \* taller than a4

WithMargins(a, m) ==
  [a EXCEPT !.margin_top = m[1], !.margin_bottom = m[2],
            !.margin_left = m[3], !.margin_right = m[4]]

PageNames == PageSizeType \cup {"A4", "invalid"}

ExplicitSizes == {{0}, {-5}, {5}, {25}, {30}, {200}, {1000}}

\* the calls of create_tianzige the model makes as a library user
ApiArgs ==
  \* no explicit size: every page, every margin set
  { WithMargins([Defaults EXCEPT !.page_size = p], m) :
      p \in PageNames, m \in MarginSets }
  \cup
  \* no explicit size, and less width left than ten squares of 0.5 mm need
  { WithMargins(Defaults, m) : m \in {<<15, 15, 103, 103>>, <<15, 15, 100, 105>>} }
  \cup
  \* an explicit size
  { WithMargins([Defaults EXCEPT !.page_size = p, !.square_size = sz], m) :
      p \in {"a4", "a6", "letter"}, sz \in ExplicitSizes,
      m \in {<<15, 15, 10, 20>>, <<10, 10, 10, 10>>, <<-1, 15, 10, 20>>,
             <<15, 15, 150, 150>>} }
  \cup
  \* colours, the inner grid, the output file
  { [Defaults EXCEPT !.line_color = c, !.show_inner_grid = g, !.square_size = sz,
                     !.page_size = p, !.output_file = f] :
      c \in Colors \cup {Gray \o <<"\n">>}, g \in BOOLEAN, sz \in {{}, {0}, {30}},
      p \in {"a4", "invalid"}, f \in {TestPdf, BadPdf} }
  \cup
  \* min_horizontal and min_vertical passed as keywords
  { [Defaults EXCEPT !.line_color = c, !.square_size = sz, !.extra = x,
                     !.min_horizontal = IF "min_horizontal" \in x THEN {h} ELSE {},
                     !.min_vertical = IF "min_vertical" \in x THEN {v} ELSE {}] :
      c \in {Gray, Invalid}, sz \in {{}, {30}},
      x \in (SUBSET {"min_horizontal", "min_vertical"}) \ {{}},
      h \in {12, 20}, v \in {15} }

\* parser.parse_args() with only the output given (lines 26-53)
DefaultNamespace ==
  [output |-> "out.pdf", create_templates |-> FALSE, color |-> Gray, size |-> {},
   min_horizontal |-> {}, min_vertical |-> {}, page_size |-> "a4",
   margin_top |-> 15, margin_bottom |-> 15, margin_left |-> 20,
   margin_right |-> 10, no_inner_grid |-> FALSE]

\* the command lines the model runs
CliArgs ==
  { [DefaultNamespace EXCEPT !.color = c, !.size = sz, !.min_horizontal = h,
                             !.page_size = p, !.no_inner_grid = g] :
      c \in {Gray, Invalid}, sz \in {{}, {20}, {-5}}, h \in {{}, {12}},
      p \in {"a4", "a5"}, g \in BOOLEAN }
  \cup
  { [DefaultNamespace EXCEPT !.create_templates = TRUE, !.output = o, !.color = c,
                             !.no_inner_grid = g] :
      o \in {"templates", "output.pdf", "/invalid/path"},
      c \in {Gray, Invalid}, g \in BOOLEAN }

paper_sizes == <<"a3", "a4", "a5", "a6", "b4", "b5", "letter", "legal">>

square_sizes == <<10, 12, 15, 20, 25>>

\* the k-th combination of the two nested for loops (lines 67-68)
Combination(k) ==
  [paper_size  |-> paper_sizes[((k - 1) \div Len(square_sizes)) + 1],
   square_size |-> square_sizes[((k - 1) % Len(square_sizes)) + 1]]

NumCombinations == Len(paper_sizes) * Len(square_sizes)

\* the longest string handed to validate_hex_color
MaxColorLen == 7

\* the characters those strings are made of
Alphabet == {"#", "0", "a", "F", "G", "\n"}

Geoms == { [page |-> p, margins |-> m] :
             p \in {"a4", "a6", "legal"},
             m \in {<<15, 15, 10, 20>>, <<0, 0, 0, 0>>, <<15, 15, 150, 150>>} }

MinSquares == {0, 1, 5, 10, 20}

----------------------------------------------------------------------------
(* The operations *)

Init ==
  /\ unwritable \in FsStates
  /\ call = {}
  /\ ret = {}
  /\ files = {}
  /\ pc = "idle"
  /\ args = {}
  /\ templates_created = 0
  /\ skipped = << >>
  /\ attempted = << >>
  /\ exit_code = {}
  /\ color = << >>
  /\ valid = FALSE
  /\ geom = [page |-> "a4", margins |-> <<15, 15, 10, 20>>]
  /\ resolved = {}

\* the files a call that ended as r leaves saved
Saved(a, r) == IF r.result = "ok" THEN {a.output_file} ELSE {}

\* one create_tianzige call with the arguments a, by whoever makes it
Invoke(a) ==
  /\ call' = {a}
  /\ ret' = {create_tianzige(a, unwritable)}
  /\ files' = files \cup UNION {Saved(a, r) : r \in ret'}

\* a library user calls create_tianzige(...), as the tests do
Call(a) ==
  /\ pc = "idle"
  /\ call = {}
  /\ Invoke(a)
  /\ UNCHANGED <<unwritable, mainVars, colorVars, sizeVars>>

\* main(), lines 10-55: the command line is parsed
MainParse(ns) ==
  /\ pc = "idle"
  /\ call = {}
  /\ pc' = "parsed"
  /\ args' = {ns}
  /\ UNCHANGED <<unwritable, call, ret, files, templates_created, skipped,
                 attempted, exit_code, colorVars, sizeVars>>

\* the two handlers of main (lines 107-112): both end in sys.exit(1)
ExitOn(result) == IF result = "ValueError" THEN 1 ELSE 1

\* main(), lines 92-112: one grid; create_tianzige is handed eleven
\* positional arguments
MainCreate ==
  /\ pc = "parsed"
  /\ \E ns \in args :
       /\ ~ns.create_templates
       /\ Invoke([output_file |-> <<"", <<ns.output>>>>, line_color |-> ns.color,
                  square_size |-> ns.size, margin_top |-> ns.margin_top,
                  margin_bottom |-> ns.margin_bottom,
                  margin_left |-> ns.margin_left,
                  margin_right |-> ns.margin_right,
                  show_inner_grid |-> ~ns.no_inner_grid,
                  page_size |-> ns.page_size,
                  extra |-> {"min_horizontal", "min_vertical"},
                  min_horizontal |-> ns.min_horizontal,
                  min_vertical |-> ns.min_vertical])
  /\ \E r \in ret' :
       IF r.result = "ok"
         THEN pc' = "returned" /\ exit_code' = exit_code
         ELSE pc' = "exited" /\ exit_code' = {ExitOn(r.result)}
  /\ UNCHANGED <<unwritable, args, templates_created, skipped, attempted,
                 colorVars, sizeVars>>

\* output_dir of line 59
OutputDir(ns) == IF ns.output # "output.pdf" THEN ns.output ELSE "sample_pdf"

\* main(), lines 58-65: --create-templates; os.makedirs raises OSError on a
\* directory it cannot create, which the handler of line 110 turns into exit 1
MainMakedirs ==
  /\ pc = "parsed"
  /\ \E ns \in args :
       /\ ns.create_templates
       /\ IF OutputDir(ns) \in MissingDirs
            THEN /\ pc' = "exited"
                 /\ exit_code' = {ExitOn("OSError")}
                 /\ UNCHANGED <<templates_created, skipped>>
            ELSE /\ pc' = "loop"
                 /\ exit_code' = exit_code
                 /\ templates_created' = 0
                 /\ skipped' = << >>
  /\ UNCHANGED <<unwritable, call, ret, files, args, attempted, colorVars, sizeVars>>

\* a faulty variant of TemplateHandler: the inner try has no handler, so a
\* ValueError ends the batch as any other exception does
TemplateHandlerNoSkip(result) == IF result = "ok" THEN "created" ELSE "exit"

\* what the loop makes of how a call ended: the else of the inner try (line
\* 82), its handler (lines 84-85), or the outer handlers (lines 107-112)
TemplateHandler(result) ==
  IF result = "ok" THEN "created"
  ELSE IF result = "ValueError" THEN "skipped"
  ELSE "exit"

\* main(), lines 67-85: one pass of the inner loop body
MainTemplate ==
  /\ pc = "loop"
  /\ Len(attempted) < NumCombinations
  /\ \E ns \in args :
       LET item == Combination(Len(attempted) + 1)
       IN  /\ Invoke([output_file |-> TemplateFile(OutputDir(ns), item.paper_size,
                                                   item.square_size),
                      line_color |-> ns.color,
                      square_size |-> {item.square_size},
                      margin_top |-> ns.margin_top,
                      margin_bottom |-> ns.margin_bottom,
                      margin_left |-> ns.margin_left,
                      margin_right |-> ns.margin_right,
                      show_inner_grid |-> ~ns.no_inner_grid,
                      page_size |-> item.paper_size,
                      extra |-> {}, min_horizontal |-> {}, min_vertical |-> {}])
           /\ \E r \in ret' :
                /\ attempted' = Append(attempted, [item |-> item, result |-> r.result])
                /\ IF TemplateHandler(r.result) = "created"
                     THEN /\ templates_created' = templates_created + 1
                          /\ UNCHANGED <<skipped, pc, exit_code>>
                   ELSE IF TemplateHandler(r.result) = "skipped"
                     THEN /\ skipped' = Append(skipped, item)
                          /\ UNCHANGED <<templates_created, pc, exit_code>>
                   ELSE /\ pc' = "exited"
                        /\ exit_code' = {ExitOn(r.result)}
                        /\ UNCHANGED <<templates_created, skipped>>
  /\ UNCHANGED <<unwritable, args, colorVars, sizeVars>>

\* main(), lines 87-91: the loops are over, the summary is printed
MainTemplatesDone ==
  /\ pc = "loop"
  /\ Len(attempted) = NumCombinations
  /\ pc' = "returned"
  /\ UNCHANGED <<unwritable, call, ret, files, args, templates_created, skipped,
                 attempted, exit_code, colorVars, sizeVars>>

Next ==
  \/ \E a \in ApiArgs : Call(a)
  \/ \E ns \in CliArgs : MainParse(ns)
  \/ MainCreate
  \/ MainMakedirs
  \/ MainTemplate
  \/ MainTemplatesDone

Spec == Init /\ [][Next]_vars

----------------------------------------------------------------------------
(* validate_hex_color on its own: the strings over Alphabet, by length *)

\* validate_hex_color(color + c)
Validate(c) ==
  /\ Len(color) < MaxColorLen
  /\ color' = Append(color, c)
  /\ valid' = validate_hex_color(color')
  /\ UNCHANGED <<unwritable, call, ret, files, mainVars, sizeVars>>

NextColor == \E c \in Alphabet : Validate(c)

SpecColor == Init /\ [][NextColor]_vars

----------------------------------------------------------------------------
(* calculate_square_size on its own, called as line 134 calls it (the      *)
(* margins in points) with the minimum counts of MinSquares                *)

\* another page and other margins
Measure(g) ==
  /\ geom' = g
  /\ resolved' = {}
  /\ UNCHANGED <<unwritable, call, ret, files, mainVars, colorVars>>

\* calculate_square_size(page_width, page_height, ..., min_squares)
Resolve(min_squares) ==
  /\ min_squares \notin {r.min_squares : r \in resolved}
  /\ resolved' = resolved \cup
       {[min_squares |-> min_squares,
         size |-> calculate_square_size(
                    PAGE_SIZES[geom.page][1], PAGE_SIZES[geom.page][2],
                    FMulInt(geom.margins[3], mm), FMulInt(geom.margins[4], mm),
                    FMulInt(geom.margins[1], mm), FMulInt(geom.margins[2], mm),
                    min_squares)]}
  /\ UNCHANGED <<unwritable, call, ret, files, mainVars, colorVars, geom>>

NextSize ==
  \/ \E g \in Geoms : Measure(g)
  \/ \E m \in MinSquares : Resolve(m)

SpecSize == Init /\ [][NextSize]_vars

----------------------------------------------------------------------------
(* The vocabulary of the properties *)

\* the operations of the log r.log, as a set
Ops(r) == {r.log[i].op : i \in 1..Len(r.log)}

\* the operations on the drawing surface
SurfaceOps == {"setStrokeColorRGB", "setDash", "line", "save"}

\* the step named has completed before the i-th entry of log
Done(log, name, i) == \E j \in 1..(i - 1) : log[j].op = name

\* colour validation, size resolution and dimension computation have all
\* completed before the i-th entry of log
Prepared(log, i) ==
  Done(log, "validate", i) /\ Done(log, "size", i) /\ Done(log, "dimensions", i)

\* a call of the nine parameters, with a colour and a page that are accepted
WellFormed(a) ==
  /\ a.extra = {}
  /\ validate_hex_color(a.line_color)
  /\ lower(a.page_size) \in PageSizeType

UsableWidth(a) ==
  FSub(FSub(PAGE_SIZES[lower(a.page_size)][1], FMulInt(a.margin_left, mm)),
       FMulInt(a.margin_right, mm))

UsableHeight(a) ==
  FSub(FSub(PAGE_SIZES[lower(a.page_size)][2], FMulInt(a.margin_top, mm)),
       FMulInt(a.margin_bottom, mm))

\* no margin is negative and the usable area is positive
ValidMargins(a) ==
  /\ a.margin_top >= 0 /\ a.margin_bottom >= 0
  /\ a.margin_left >= 0 /\ a.margin_right >= 0
  /\ FLess(FZero, UsableWidth(a))
  /\ FLess(FZero, UsableHeight(a))

\* the explicit square size of a, in points
ExplicitPt(a) == FMul(FromInt(The(a.square_size)), mm)

\* the complete squares of the explicit size (positive) that fit each way
FitCols(a) == FFloorDiv(UsableWidth(a), ExplicitPt(a))

FitRows(a) == FFloorDiv(UsableHeight(a), ExplicitPt(a))

\* the minimum counts asked for, 10 when unspecified
MinHorizontal(a) == IF a.min_horizontal = {} THEN 10 ELSE The(a.min_horizontal)

MinVertical(a) == IF a.min_vertical = {} THEN 10 ELSE The(a.min_vertical)

\* an optional '#', six hex digits, and nothing else
IsHexColor(s) ==
  \/ Len(s) = 6 /\ \A i \in 1..6 : s[i] \in HexDigit
  \/ Len(s) = 7 /\ s[1] = "#" /\ \A i \in 2..7 : s[i] \in HexDigit

\* the items of the attempts that ended as result, in order
RECURSIVE ItemsEnding(_, _)
ItemsEnding(att, result) ==
  IF att = << >> THEN << >>
  ELSE (IF Head(att).result = result THEN <<Head(att).item>> ELSE << >>)
       \o ItemsEnding(Tail(att), result)

\* main() runs, or has run, the template loop
InTemplateMode == pc \in {"loop", "returned", "exited"} /\ \E ns \in args : ns.create_templates

\* an entry of a log is an operation on the drawing surface
IsSurfaceOp(e) == e.op \in SurfaceOps

\* the operations on the drawing surface in log, in order
SurfaceLog(log) == SelectSeq(log, IsSurfaceOp)

\* a line from (x1, y1) to (x2, y2), solid or drawn under the dash pattern
Segment(x1, y1, x2, y2, dashed) ==
  [op |-> "line", x1 |-> x1, y1 |-> y1, x2 |-> x2, y2 |-> y2, dashed |-> dashed]

\* the vertical lines at x = left + i*s + off for i = first..last, each from
\* bottom to bottom + rows*s
ExpectedVertical(first, last, left, bottom, s, off, rows, dashed) ==
  IF last < first THEN << >>
  ELSE [k \in 1..(last - first + 1) |->
          Segment(FAdd(FAdd(left, FMulInt(first + k - 1, s)), off), bottom,
                  FAdd(FAdd(left, FMulInt(first + k - 1, s)), off),
                  FAdd(bottom, FMulInt(rows, s)), dashed)]

\* the horizontal lines at y = bottom + i*s + off for i = first..last, each
\* from left to left + cols*s
ExpectedHorizontal(first, last, left, bottom, s, off, cols, dashed) ==
  IF last < first THEN << >>
  ELSE [k \in 1..(last - first + 1) |->
          Segment(left, FAdd(FAdd(bottom, FMulInt(first + k - 1, s)), off),
                  FAdd(left, FMulInt(cols, s)),
                  FAdd(FAdd(bottom, FMulInt(first + k - 1, s)), off), dashed)]

\* the operations a grid of cols by rows squares of s points asks for
ExpectedSurfaceLog(a, left, bottom, s, cols, rows) ==
  <<[op |-> "setStrokeColorRGB", rgb |-> hex_to_rgb(a.line_color)]>>
  \o ExpectedVertical(0, cols, left, bottom, s, FZero, rows, FALSE)
  \o ExpectedHorizontal(0, rows, left, bottom, s, FZero, cols, FALSE)
  \o (IF a.show_inner_grid
        THEN <<[op |-> "setDash", array |-> <<1, 2>>]>>
             \o ExpectedVertical(0, cols - 1, left, bottom, s, FHalf(s), rows, TRUE)
             \o ExpectedHorizontal(0, rows - 1, left, bottom, s, FHalf(s), cols, TRUE)
        ELSE << >>)
  \o <<[op |-> "save"]>>

\* the square size a run resolved, in points
ResolvedPt(r) == FMul(The(r.square_size), mm)

----------------------------------------------------------------------------
(* The properties *)

\* C1: in auto-size mode, on a supported page with margins that leave a
\* positive usable area, the resolved square size is positive and the grid
\* has at least the minimum counts of columns and rows (10 by default).
AutoSizeMeetsMinimum ==
  \A a \in call : \A r \in ret :
    (WellFormed(a) /\ a.square_size = {} /\ ValidMargins(a))
      => /\ \E sz \in r.square_size : FLess(FZero, sz)
         /\ \E g \in r.grid : g[1] >= MinHorizontal(a) /\ g[2] >= MinVertical(a)

\* C2: an explicit square size given with a minimum count that it does not
\* reach, on either axis, makes the call fail with a ValueError, and nothing
\* is rendered.
SizeConflictRejected ==
  \A a \in call : \A r \in ret :
    (/\ validate_hex_color(a.line_color)
     /\ lower(a.page_size) \in PageSizeType
     /\ a.square_size # {} /\ The(a.square_size) > 0
     /\ \/ a.min_horizontal # {} /\ FitCols(a) < MinHorizontal(a)
        \/ a.min_vertical # {} /\ FitRows(a) < MinVertical(a))
      => r.result = "ValueError" /\ Ops(r) \cap SurfaceOps = {}

\* C3: an explicit square size that is <= 0, or larger than the usable width
\* and the usable height, makes the call fail with a ValueError; no line is
\* drawn and the output is never finalized.
DegenerateSizeRejected ==
  \A a \in call : \A r \in ret :
    (/\ WellFormed(a)
     /\ a.square_size # {}
     /\ \/ The(a.square_size) <= 0
        \/ FLess(UsableWidth(a), ExplicitPt(a)) /\ FLess(UsableHeight(a), ExplicitPt(a)))
      => r.result = "ValueError" /\ Ops(r) \cap {"line", "save"} = {}

\* C4: a negative margin, or margins that leave no positive usable area,
\* make the call fail with a ValueError, with or without an explicit size.
InvalidMarginsRejected ==
  \A a \in call : \A r \in ret :
    (WellFormed(a) /\ ~ValidMargins(a)) => r.result = "ValueError"

\* C5: a call whose line_color validate_hex_color rejects touches no drawing
\* surface (no canvas, no stroke colour, no line, no save), leaves no output
\* file, and, made with the parameters the function has, ends in a ValueError,
\* whatever the other arguments are.
InvalidColorFailsFirst ==
  \A a \in call : \A r \in ret :
    ~validate_hex_color(a.line_color)
      => /\ r.log = << >>
         /\ a.output_file \notin files
         /\ a.extra = {} => r.result = "ValueError"

\* a call with a rejected colour and a page name PAGE_SIZES lacks ended in
\* the ValueError of the colour
InvalidColorSeen ==
  \E a \in call : \E r \in ret :
    /\ ~validate_hex_color(a.line_color)
    /\ a.page_size = "invalid"
    /\ a.extra = {}
    /\ r.result = "ValueError"

\* C6, as stated: no operation on the drawing surface (stroke colour, dash,
\* line, save) happens before colour validation, size resolution and
\* dimension computation have all completed.
NoSurfaceOpBeforePrepared ==
  \A r \in ret : \A i \in 1..Len(r.log) :
    r.log[i].op \in SurfaceOps => Prepared(r.log, i)

\* C6, amended: no dash, line or save happens before colour validation, size
\* resolution and dimension computation have all completed; the stroke colour
\* is set once, on the new canvas, after the colour is validated; so a run
\* that fails in one of the three steps has drawn no line and saved nothing.
DrawingAllOrNothing ==
  \A r \in ret :
    /\ \A i \in 1..Len(r.log) :
         /\ r.log[i].op \in {"setDash", "line", "save"} => Prepared(r.log, i)
         /\ r.log[i].op = "setStrokeColorRGB"
              => /\ Done(r.log, "validate", i)
                 /\ r.log[i - 1].op = "Canvas"
                 /\ \A j \in 1..Len(r.log) : r.log[j].op = "setStrokeColorRGB" => j = i
    /\ r.result \notin {"ok", "IOError"}
         => Ops(r) \cap {"setDash", "line", "save", "dimensions"} = {}

\* a run that failed in the dimension step after the stroke colour was set
FailedAfterStrokeColour ==
  \E r \in ret :
    /\ r.result = "ZeroDivisionError"
    /\ {"setStrokeColorRGB", "size"} \subseteq Ops(r)

\* C7: validate_hex_color(s) is true exactly when s is an optional '#'
\* followed by six hex digits and nothing else.
ValidIffHexColor == (color # << >>) => (valid <=> IsHexColor(color))

\* C8: for a fixed page and fixed margins, of two minimum counts for which a
\* size is returned, the larger never gets the larger size.
AutoSizeMonotonic ==
  \A r1 \in resolved : \A r2 \in resolved :
    (/\ r1.size.raise = "none" /\ r2.size.raise = "none"
     /\ r1.min_squares <= r2.min_squares)
      => FLeq(r2.size.value, r1.size.value)

\* C9: a command line without --create-templates, with an accepted colour
\* and no --size, ends with the grid rendered and saved at the output path,
\* and main() returns without exiting.
CliRendersGrid ==
  \A ns \in args :
    (/\ ~ns.create_templates
     /\ validate_hex_color(ns.color)
     /\ ns.size = {}
     /\ pc \in {"returned", "exited"})
      => /\ pc = "returned"
         /\ exit_code = {}
         /\ <<"", <<ns.output>>>> \in files
         /\ \E r \in ret : r.result = "ok" /\ "save" \in Ops(r)

DrawsExactlyTheGrid ==
  \A a \in call : \A r \in ret :
    (r.result = "ok" /\ FLess(FZero, The(r.square_size)))
      => \E g \in r.grid :
           /\ g[1] = FFloorDiv(UsableWidth(a), ResolvedPt(r))
           /\ g[2] = FFloorDiv(UsableHeight(a), ResolvedPt(r))
           /\ SurfaceLog(r.log)
                = ExpectedSurfaceLog(a, FMulInt(a.margin_left, mm),
                                     FMulInt(a.margin_bottom, mm),
                                     ResolvedPt(r), g[1], g[2])
           /\ \A i \in 1..Len(r.log) :
                r.log[i].op = "line" => (r.log[i].dashed <=> Done(r.log, "setDash", i))

\* a saved grid of several squares each way, with its dashed inner lines
InnerGridDrawn ==
  \E a \in call : \E r \in ret : \E g \in r.grid :
    /\ r.result = "ok"
    /\ a.show_inner_grid
    /\ g[1] >= 2 /\ g[2] >= 2
    /\ "setDash" \in Ops(r)
    /\ Len(SurfaceLog(r.log)) = 2 * (g[1] + g[2]) + 5

\* the point (x, y) lies in the usable area of the page of the call a
InUsableArea(a, x, y) ==
  /\ FLeq(FMulInt(a.margin_left, mm), x)
  /\ FLeq(x, FSub(PAGE_SIZES[lower(a.page_size)][1], FMulInt(a.margin_right, mm)))
  /\ FLeq(FMulInt(a.margin_bottom, mm), y)
  /\ FLeq(y, FSub(PAGE_SIZES[lower(a.page_size)][2], FMulInt(a.margin_top, mm)))

\* C12: both endpoints of every line a run draws, solid or dashed, lie in
\* the usable area: marginLeft <= x <= pageWidth - marginRight and
\* marginBottom <= y <= pageHeight - marginTop.
LinesInsideUsableArea ==
  \A a \in call : \A r \in ret : \A i \in 1..Len(r.log) :
    r.log[i].op = "line"
      => /\ InUsableArea(a, r.log[i].x1, r.log[i].y1)
         /\ InUsableArea(a, r.log[i].x2, r.log[i].y2)

====
